---- MODULE Spec2Model ----
(***************************************************************************)
(* Access Review Portal (streamlit_access_app.py).                         *)
(*                                                                         *)
(* Durable stores: the code map (supervisor_codes.json), the active        *)
(* dataset pointer (active_config.json), the uploaded roster files         *)
(* (data/<name>) and the audit log (access_review_log.xlsx).  Ephemeral    *)
(* state: one st.session_state per browser session.                        *)
(*                                                                         *)
(* A text (cell, column name, label) is a sequence of string tokens, so    *)
(* that stripping, lower-casing, label formatting and label splitting are  *)
(* computed and not assumed.  The empty text stands for pandas' NaN (an    *)
(* empty CSV cell) and for Python's None.  An access code is the sequence  *)
(* of its decimal digits.                                                  *)
(*                                                                         *)
(* Input domain: every cell of an uploaded file is text that pandas keeps  *)
(* as a string (no column of numbers only), every line has as many cells   *)
(* as the header.  Spec and SpecRegistry take one script run at a time;    *)
(* SpecConc interleaves the runs of two sessions at the file operations    *)
(* on the code map, SpecLog at the file operations on the audit log;       *)
(* SpecDraw takes the loop of generate_unique_code draw by draw, from      *)
(* code maps of every size.                                                *)
(***************************************************************************)
EXTENDS Integers, Sequences, FiniteSets, TLC

VARIABLES
    codeFile,     \* supervisor_codes.json
    configFile,   \* active_config.json
    dataDir,      \* data/<name> -> raw lines of the uploaded file
    logFile,      \* access_review_log.xlsx
    session,      \* st.session_state of every browser session
    msg,          \* the message the last script run displayed
    entered,      \* the code typed at the last "Start Review" of a session
    admin_pass,   \* the passcode typed at the last "Unlock Admin Panel" of a session
    issued,       \* history: every (supervisor, code) generate_unique_code assigned
    seen,         \* history: every supervisor the loop of load_or_create_codes went through
    roster,       \* history: the frame the last issuance of codes was given
    uploaded,     \* history: the files of the upload that frame was read from
    clock,        \* datetime.now(), in seconds
    iss,          \* concurrent runs: position and locals of every issuance
    rec,          \* concurrent runs: position and locals of every log_actions call
    gen,          \* the loop of generate_unique_code: position, codes in use, keys left, last draw
    observed      \* concurrent runs: what the last reader of the code map got

vars == <<codeFile, configFile, dataDir, logFile, session, msg, entered, admin_pass,
          issued, seen, roster, uploaded, clock, iss, rec, gen, observed>>

-----------------------------------------------------------------------------
(* Bounds *)

MaxFiles == 2      \* files selected in one upload
MaxLogRows == 2    \* data rows the audit log may hold
MaxClock == 1      \* last second the clock reaches
MaxDraw == 2       \* distinct low values random.randint is explored on
MaxNew == 2        \* supervisors without a code in one issuance

-----------------------------------------------------------------------------
(* Texts *)

None == <<>>
NaN == <<>>

SP == " "
BOM == "U+FEFF"
SEP == " - "

\* str.lower() on the tokens that occur in column names
LowerTok(t) ==
    CASE t = "Supervisor" -> "supervisor"
      [] t = "SUPERVISOR" -> "supervisor"
      [] t = "Manager" -> "manager"
      [] t = "User ID" -> "user id"
      [] t = "User Name" -> "user name"
      [] t = "Role" -> "role"
      [] t = "Role Name" -> "role name"
      [] OTHER -> t

Lower(text) == [i \in 1..Len(text) |-> LowerTok(text[i])]

\* .str.replace(r'^﻿', '', regex=True)
StripBOM(text) == IF text # <<>> /\ Head(text) = BOM THEN Tail(text) ELSE text

RECURSIVE LStrip(_)
LStrip(text) == IF text # <<>> /\ Head(text) = SP THEN LStrip(Tail(text)) ELSE text

RECURSIVE RStrip(_)
RStrip(text) ==
    IF text # <<>> /\ text[Len(text)] = SP
    THEN RStrip(SubSeq(text, 1, Len(text) - 1))
    ELSE text

\* .str.strip()
Strip(text) == RStrip(LStrip(text))

NormalizeColumn(c) == Strip(StripBOM(c))

NormalizeColumns(cols) == [i \in 1..Len(cols) |-> NormalizeColumn(cols[i])]

\* next((i for i in ... if p(i)), 0): the first index of s that satisfies p
RECURSIVE FirstIndex(_, _, _)
FirstIndex(s, p(_), i) ==
    IF i > Len(s) THEN 0
    ELSE IF p(s[i]) THEN i ELSE FirstIndex(s, p, i + 1)

RECURSIVE SelectSeqKeepFirst(_, _)
\* drop_duplicates(): keep the first occurrence of every element
SelectSeqKeepFirst(s, acc) ==
    IF s = <<>> THEN acc
    ELSE IF \E i \in 1..Len(acc) : acc[i] = Head(s)
         THEN SelectSeqKeepFirst(Tail(s), acc)
         ELSE SelectSeqKeepFirst(Tail(s), Append(acc, Head(s)))

DropDuplicates(s) == SelectSeqKeepFirst(s, <<>>)

Range(s) == {s[i] : i \in 1..Len(s)}

-----------------------------------------------------------------------------
(* Uploaded files: the inputs the admin can select *)

T(x) == <<x>>

CanonicalHeader == <<T("User ID"), T("User Name"), T("Role"), T("Role Name"), T("Supervisor")>>

\* two rows of one employee (one a verbatim duplicate), a second role for the
\* same user id, a user id that contains the label separator, a second team
FileTeam ==
    [name |-> "team.csv",
     lines |-> << CanonicalHeader,
                  <<T("E1"), T("Alice"), T("R1"), T("Admin"), T("Jordan")>>,
                  <<T("E1"), T("Alice"), T("R1"), T("Admin"), T("Jordan")>>,
                  <<T("E1"), T("Alice"), T("R2"), T("Viewer"), T("Jordan")>>,
                  <<T("E2"), T("Bob"), T("R2"), T("Viewer"), T("Jordan")>>,
                  <<<<"E1", SEP, "9">>, T("Cy"), T("R1"), T("Admin"), T("Avery")>>,
                  <<T("E5"), T("Eve"), T("R1"), T("Admin"), NaN>> >>]

\* a header that only matches after normalisation
FileLoose ==
    [name |-> "loose.csv",
     lines |-> << <<T("User ID"), T("User Name"), T("Role"), T("Role Name"),
                    <<SP, "SUPERVISOR", SP>> >>,
                  <<T("E6"), T("Gus"), T("R2"), T("Viewer"), T("Sam")>>,
                  <<T("E1"), T("Alice"), T("R1"), T("Admin"), T("Sam")>> >>]

\* no Supervisor column; stored under the name of FileTeam
FileNoSup ==
    [name |-> "team.csv",
     lines |-> << <<T("User ID"), T("User Name"), T("Role"), T("Role Name"), T("Manager")>>,
                  <<T("E1"), T("Alice"), T("R1"), T("Admin"), T("Jordan")>> >>]

\* an export without a header row
FileBare ==
    [name |-> "bare.csv",
     lines |-> << <<T("E3"), T("Dee"), T("R1"), T("Admin"), T("Sam")>>,
                  <<T("E4"), T("Fay"), T("R2"), T("Viewer"), T("Jordan")>> >>]

Catalog == {FileTeam, FileLoose, FileNoSup, FileBare}

FileNames == {f.name : f \in Catalog}

Uploads == UNION {[1..n -> Catalog] : n \in 1..MaxFiles}

\* sorted() on the supervisor names that occur in the catalog
SortedNames == <<T("Avery"), T("Jordan"), T("Sam")>>

-----------------------------------------------------------------------------
(* Data frames *)

\* pd.read_csv(...): the first line is the header
ReadCsv(lines) == [columns |-> Head(lines), rows |-> Tail(lines)]

\* pd.read_csv(..., header=None, names=expected_cols, skiprows=1)
ReadCsvNamed(lines, expected_cols) == [columns |-> expected_cols, rows |-> Tail(lines)]

ColumnIndex(df, col) == FirstIndex(df.columns, LAMBDA c : c = col, 1)

HasColumn(df, col) == ColumnIndex(df, col) # 0

RECURSIVE ReadParts(_, _, _)
\* the loop over uploaded_files, pd.concat(all_dfs, ignore_index=True)
ReadParts(files, idx, expected_cols) ==
    IF idx > Len(files) THEN <<>>
    ELSE IF idx = 1
         THEN LET first == ReadCsv(files[1].lines)
                  cols == NormalizeColumns(first.columns)
              IN  first.rows \o ReadParts(files, 2, cols)
         ELSE ReadCsvNamed(files[idx].lines, expected_cols).rows
                  \o ReadParts(files, idx + 1, expected_cols)

ConcatUpload(files) ==
    [columns |-> NormalizeColumns(ReadCsv(files[1].lines).columns),
     rows |-> ReadParts(files, 1, <<>>)]

-----------------------------------------------------------------------------
(* CodeRegistry *)

RandLo == 1000
RandHi == 9999

\* the values of random.randint(1000, 9999) the model explores: both ends of
\* the range and the values next to the lower end
DrawSet == (RandLo..(RandLo + MaxDraw - 1)) \cup {RandHi}

RECURSIVE Digits(_)
Digits(n) == IF n < 10 THEN <<n>> ELSE Append(Digits(n \div 10), n % 10)

\* str(n)
Str(n) == Digits(n)

\* code_map.values()
Values(code_map) == {code_map[i].code : i \in 1..Len(code_map)}

\* code_map.keys()
Keys(code_map) == {code_map[i].sup : i \in 1..Len(code_map)}

\* generate_unique_code, as if the draw were not compared with the codes in use
GenerateAnyCode(existing) == {Str(n) : n \in DrawSet}

\* the codes generate_unique_code(existing) can return
generate_unique_code(existing) == {Str(n) : n \in {m \in DrawSet : Str(m) \notin existing}}

\* next((c for c in df.columns if c.lower() == 'supervisor'), None), as an index
SupCol(df) ==
    FirstIndex(NormalizeColumns(df.columns), LAMBDA c : Lower(c) = T("supervisor"), 1)

RECURSIVE SortedFrom(_, _)
SortedFrom(set, rank) ==
    IF rank > Len(SortedNames) THEN <<>>
    ELSE (IF SortedNames[rank] \in set THEN <<SortedNames[rank]>> ELSE <<>>)
             \o SortedFrom(set, rank + 1)

\* sorted(df[sup_col].dropna().unique())
Supervisors(df) ==
    SortedFrom({df.rows[i][SupCol(df)] : i \in 1..Len(df.rows)} \ {NaN}, 1)

RECURSIVE IssueAllAgainstLoaded(_, _)
\* the loop "for sup in supervisors", as if every draw were compared with the
\* codes of the loaded map only and not with those assigned earlier in the loop
IssueAllAgainstLoaded(code_map, sups) ==
    IF sups = <<>> THEN {code_map}
    ELSE LET last == sups[Len(sups)]
             front == SubSeq(sups, 1, Len(sups) - 1)
         IN  IF last \in Keys(code_map)
             THEN IssueAllAgainstLoaded(code_map, front)
             ELSE { Append(m, [sup |-> last, code |-> c])
                      : m \in IssueAllAgainstLoaded(code_map, front),
                        c \in generate_unique_code(Values(code_map)) }

RECURSIVE IssueAll(_, _)
\* the loop "for sup in supervisors": every code map it can end with
IssueAll(code_map, sups) ==
    IF sups = <<>> THEN {code_map}
    ELSE IF Head(sups) \in Keys(code_map)
         THEN IssueAll(code_map, Tail(sups))
         ELSE UNION { IssueAll(Append(code_map, [sup |-> Head(sups), code |-> c]), Tail(sups))
                        : c \in generate_unique_code(Values(code_map)) }

\* the content of a file that was written and closed
Written(code_map) == [exists |-> TRUE, complete |-> TRUE, entries |-> code_map]

NoCodeFile == [exists |-> FALSE, complete |-> TRUE, entries |-> <<>>]

\* the start of step 4, as if the existing file were never loaded
LoadNothing(file) == <<>>

\* json.load(f) of the code map; an absent file is the empty map
LoadCodes(file) == IF file.exists THEN file.entries ELSE <<>>

\* json.load raises on a file that was opened for writing and not yet closed
Loadable(file) == file.exists => file.complete

\* find_supervisor_by_code, as if the generator had no condition
FindIgnoringCode(file, code) ==
    IF ~file.exists THEN None
    ELSE IF file.entries = <<>> THEN None ELSE file.entries[1].sup

find_supervisor_by_code(file, code) ==
    IF ~file.exists THEN None
    ELSE LET m == file.entries
             i == FirstIndex(m, LAMBDA e : e.code = code, 1)
         IN  IF i = 0 THEN None ELSE m[i].sup

-----------------------------------------------------------------------------
(* Roster access of a review session *)

NoConfig == [exists |-> FALSE, active_csv |-> ""]

NoData == [exists |-> FALSE, lines |-> <<>>]

\* load_active_csv_path and load_dataframe: the file the pointer names, read
\* with its own header, column names as they are in the file
load_dataframe(config, dir) == ReadCsv(dir[config.active_csv].lines)

\* the columns the review page and log_actions index by name
ReviewColumns == <<T("User ID"), T("User Name"), T("Role"), T("Role Name")>>

\* df['Supervisor'] and df[[...]] raise KeyError unless every column is there
Indexable(df) ==
    /\ HasColumn(df, T("Supervisor"))
    /\ \A i \in 1..Len(ReviewColumns) : HasColumn(df, ReviewColumns[i])

Project(df, row) == [i \in 1..Len(ReviewColumns) |-> row[ColumnIndex(df, ReviewColumns[i])]]

\* df[df['Supervisor'] == sup][['User ID','User Name','Role','Role Name']].drop_duplicates()
Team(df, sup) ==
    LET mine == SelectSeq(df.rows, LAMBDA r : r[ColumnIndex(df, T("Supervisor"))] = sup)
    IN  DropDuplicates([i \in 1..Len(mine) |-> Project(df, mine[i])])

\* f"{row['User ID']} - {row['User Name']}"
Label(emp) == emp[1] \o <<SEP>> \o emp[2]

\* entry.split(' - ', 1)[0]: the part of the label before the first separator
SplitUid(entry) ==
    LET i == FirstIndex(entry, LAMBDA t : t = SEP, 1)
    IN  IF i = 0 THEN entry ELSE SubSeq(entry, 1, i - 1)

\* the labels of the ticked boxes, in the order of the team
RECURSIVE Ticked(_, _, _)
Ticked(emps, boxes, i) ==
    IF i > Len(emps) THEN <<>>
    ELSE (IF i \in boxes THEN <<Label(emps[i])>> ELSE <<>>) \o Ticked(emps, boxes, i + 1)

-----------------------------------------------------------------------------
(* AuditLog *)

LogHeader ==
    <<T("User ID"), T("User Name"), T("Role"), T("Role Name"),
      T("Supervisor"), T("Action"), T("Timestamp")>>

NoLog == [exists |-> FALSE, rows |-> <<>>]

\* datetime.now().strftime('%Y-%m-%d %H:%M:%S')
Strftime(now) == T(ToString(now))

RECURSIVE RecordsOfLast(_, _, _, _, _)
\* the inner loop of log_actions, as if the last matching row were taken
RecordsOfLast(sup_df, supervisor, action, lst, timestamp) ==
    IF lst = <<>> THEN <<>>
    ELSE LET uid == SplitUid(Head(lst))
             match == SelectSeq(sup_df, LAMBDA r : r[1] = uid)
             rest == RecordsOfLast(sup_df, supervisor, action, Tail(lst), timestamp)
         IN  IF match # <<>>
             THEN <<match[Len(match)] \o <<supervisor, T(action), timestamp>>>> \o rest
             ELSE rest

RECURSIVE RecordsOf(_, _, _, _, _)
\* the inner loop "for entry in lst" of log_actions
RecordsOf(sup_df, supervisor, action, lst, timestamp) ==
    IF lst = <<>> THEN <<>>
    ELSE LET uid == SplitUid(Head(lst))
             match == SelectSeq(sup_df, LAMBDA r : r[1] = uid)
             rest == RecordsOf(sup_df, supervisor, action, Tail(lst), timestamp)
         IN  IF match # <<>>
             THEN <<match[1] \o <<supervisor, T(action), timestamp>>>> \o rest
             ELSE rest

\* the records of one log_actions call, as if the removals were taken first
RecordsRemovedFirst(supervisor, approved, removed, df, timestamp) ==
    LET sup_df == Team(df, supervisor)
    IN  RecordsOf(sup_df, supervisor, "Removed", removed, timestamp)
            \o RecordsOf(sup_df, supervisor, "Approved", approved, timestamp)

\* the records of one log_actions call, as if sup_df were the whole roster
RecordsAnyTeam(supervisor, approved, removed, df, timestamp) ==
    LET sup_df == DropDuplicates([i \in 1..Len(df.rows) |-> Project(df, df.rows[i])])
    IN  RecordsOf(sup_df, supervisor, "Approved", approved, timestamp)
            \o RecordsOf(sup_df, supervisor, "Removed", removed, timestamp)

\* the records of one log_actions call
Records(supervisor, approved, removed, df, timestamp) ==
    LET sup_df == Team(df, supervisor)
    IN  RecordsOf(sup_df, supervisor, "Approved", approved, timestamp)
            \o RecordsOf(sup_df, supervisor, "Removed", removed, timestamp)

\* log_actions, as if a workbook were written even when no record survives
LogAlways(log, records) ==
    IF ~log.exists
    THEN [exists |-> TRUE, rows |-> <<LogHeader>> \o records]
    ELSE [exists |-> TRUE, rows |-> log.rows \o records]

\* log_actions, as if an existing workbook were replaced and not loaded
LogFresh(log, records) ==
    IF records = <<>> THEN log
    ELSE [exists |-> TRUE, rows |-> <<LogHeader>> \o records]

\* log_actions from "if not records" on: the workbook after the call
WriteLog(log, records) ==
    IF records = <<>> THEN log
    ELSE IF ~log.exists
         THEN [exists |-> TRUE, rows |-> <<LogHeader>> \o records]
         ELSE [exists |-> TRUE, rows |-> log.rows \o records]

log_actions(log, supervisor, approved, removed, df, now) ==
    WriteLog(log, Records(supervisor, approved, removed, df, Strftime(now)))

\* the data rows of the workbook
DataRows(log) == IF log.exists THEN Tail(log.rows) ELSE <<>>

-----------------------------------------------------------------------------
(* State *)

Sessions == {"s1", "s2"}

\* the session that acts when one script run at a time is explored
Solo == {"s1"}

AdminPasscode == "1234"

Passcodes == {"1234", "0000"}

\* what can be typed into the access code box (max_chars=4)
CodeInputs == {Str(n) : n \in DrawSet} \cup {<<>>, <<1, 0, 0>>, <<0, 9, 9, 9>>}

\* "Session state defaults" and the default of admin_verified
SessionDefaults ==
    [supervisor |-> None, review_started |-> FALSE, review_complete |-> FALSE,
     approved |-> <<>>, removed |-> <<>>, admin_verified |-> FALSE]

Idle == [pc |-> "idle", code_map |-> <<>>]

NothingObserved == NoCodeFile

\* no issuance is under way
NotIssuing == [pc |-> "idle", existing |-> {}, todo |-> 0, code |-> <<>>]

\* no codes were issued yet
NoRoster == [columns |-> <<>>, rows |-> <<>>]

NotRecording == [pc |-> "idle", wb |-> NoLog, records |-> <<>>, approve |-> <<>>, remove |-> <<>>]

Init ==
    /\ codeFile = NoCodeFile
    /\ configFile = NoConfig
    /\ dataDir = [n \in FileNames |-> NoData]
    /\ logFile = NoLog
    /\ session = [s \in Sessions |-> SessionDefaults]
    /\ msg = ""
    /\ entered = [s \in Sessions |-> <<>>]
    /\ admin_pass = [s \in Sessions |-> ""]
    /\ issued = {}
    /\ seen = {}
    /\ roster = NoRoster
    /\ uploaded = <<>>
    /\ clock = 0
    /\ iss = [s \in Sessions |-> Idle]
    /\ rec = [s \in Sessions |-> NotRecording]
    /\ gen = NotIssuing
    /\ observed = NothingObserved

AwaitingCode(s) == ~session[s].review_started

InReview(s) == session[s].review_started /\ ~session[s].review_complete

Completed(s) == session[s].review_started /\ session[s].review_complete

stores == <<codeFile, configFile, dataDir, logFile>>

-----------------------------------------------------------------------------
(* Supervisor Review tab *)

\* "Start Review", as if the page were opened whatever the lookup returned
StartReviewUnchecked(s, code) ==
    /\ AwaitingCode(s)
    /\ Loadable(codeFile)
    /\ code # <<>>
    /\ session' = [session EXCEPT ![s].supervisor = find_supervisor_by_code(codeFile, code),
                                  ![s].review_started = TRUE]
    /\ msg' = ""
    /\ entered' = [entered EXCEPT ![s] = code]
    /\ UNCHANGED <<stores, admin_pass, issued, seen, roster, uploaded, clock, gen>>

\* "Start Review" with a code typed in
StartReviewRun(s, code) ==
    /\ AwaitingCode(s)
    /\ Loadable(codeFile)
    /\ code # <<>>
    /\ LET sup == find_supervisor_by_code(codeFile, code)
       IN  IF sup # None
           THEN /\ session' = [session EXCEPT ![s].supervisor = sup,
                                              ![s].review_started = TRUE]
                /\ msg' = ""
           ELSE /\ session' = session
                /\ msg' = "Invalid access code."
    /\ entered' = [entered EXCEPT ![s] = code]
    /\ UNCHANGED <<stores, admin_pass, issued, seen, roster, uploaded, clock, gen>>

StartReview(s, code) == StartReviewRun(s, code) /\ UNCHANGED <<iss, rec, observed>>

\* "Submit Review", as if the session stayed on the review page
SubmitReviewStaying(s, approveBoxes, removeBoxes) ==
    /\ InReview(s)
    /\ configFile.exists
    /\ LET sup == session[s].supervisor
           df == load_dataframe(configFile, dataDir)
       IN  /\ Indexable(df)
           /\ LET emps == Team(df, sup)
                  approve == Ticked(emps, approveBoxes, 1)
                  remove == Ticked(emps, removeBoxes, 1)
                  log == log_actions(logFile, sup, approve, remove, df, clock)
              IN  /\ approveBoxes \subseteq 1..Len(emps)
                  /\ removeBoxes \subseteq 1..Len(emps)
                  /\ Len(DataRows(log)) <= MaxLogRows
                  /\ logFile' = log
                  /\ session' = [session EXCEPT ![s].approved = approve,
                                                ![s].removed = remove]
    /\ msg' = ""
    /\ UNCHANGED <<codeFile, configFile, dataDir, entered, admin_pass, issued, seen, roster, uploaded, clock, gen, iss, rec, observed>>

\* "Submit Review" with the boxes of approveBoxes and removeBoxes ticked
SubmitReview(s, approveBoxes, removeBoxes) ==
    /\ InReview(s)
    /\ configFile.exists
    /\ LET sup == session[s].supervisor
           df == load_dataframe(configFile, dataDir)
       IN  /\ Indexable(df)
           /\ LET emps == Team(df, sup)
                  approve == Ticked(emps, approveBoxes, 1)
                  remove == Ticked(emps, removeBoxes, 1)
                  log == log_actions(logFile, sup, approve, remove, df, clock)
              IN  /\ approveBoxes \subseteq 1..Len(emps)
                  /\ removeBoxes \subseteq 1..Len(emps)
                  /\ Len(DataRows(log)) <= MaxLogRows
                  /\ logFile' = log
                  /\ session' = [session EXCEPT ![s].approved = approve,
                                                ![s].removed = remove,
                                                ![s].review_complete = TRUE]
    /\ msg' = ""
    /\ UNCHANGED <<codeFile, configFile, dataDir, entered, admin_pass, issued, seen, roster, uploaded, clock, gen, iss, rec, observed>>

\* the review page of a roster whose header lacks one of the indexed columns:
\* the script run ends with KeyError
ReviewFails(s) ==
    /\ InReview(s)
    /\ configFile.exists
    /\ ~Indexable(load_dataframe(configFile, dataDir))
    /\ msg # "KeyError"
    /\ msg' = "KeyError"
    /\ UNCHANGED <<stores, session, entered, admin_pass, issued, seen, roster, uploaded, clock, gen, iss, rec, observed>>

\* "Start New Review", as if it led back to the review page
StartNewReviewResuming(s) ==
    /\ Completed(s)
    /\ session' = [session EXCEPT ![s].review_complete = FALSE,
                                  ![s].approved = <<>>,
                                  ![s].removed = <<>>]
    /\ msg' = ""
    /\ UNCHANGED <<stores, entered, admin_pass, issued, seen, roster, uploaded, clock, gen, iss, rec, observed>>

\* "Start New Review"
StartNewReview(s) ==
    /\ Completed(s)
    /\ session' = [session EXCEPT ![s].review_started = FALSE,
                                  ![s].review_complete = FALSE,
                                  ![s].approved = <<>>,
                                  ![s].removed = <<>>]
    /\ msg' = ""
    /\ UNCHANGED <<stores, entered, admin_pass, issued, seen, roster, uploaded, clock, gen, iss, rec, observed>>

-----------------------------------------------------------------------------
(* Admin Panel tab *)

\* "Unlock Admin Panel", as if every passcode unlocked the panel
UnlockAny(s, pwd) ==
    /\ ~session[s].admin_verified
    /\ admin_pass' = [admin_pass EXCEPT ![s] = pwd]
    /\ session' = [session EXCEPT ![s].admin_verified = TRUE]
    /\ msg' = ""
    /\ UNCHANGED <<stores, entered, issued, seen, roster, uploaded, clock, gen, iss, rec, observed>>

\* "Unlock Admin Panel"
Unlock(s, pwd) ==
    /\ ~session[s].admin_verified
    /\ admin_pass' = [admin_pass EXCEPT ![s] = pwd]
    /\ IF pwd = AdminPasscode
       THEN /\ session' = [session EXCEPT ![s].admin_verified = TRUE]
            /\ msg' = ""
       ELSE /\ session' = session
            /\ msg # "Incorrect passcode."
            /\ msg' = "Incorrect passcode."
    /\ UNCHANGED <<stores, entered, issued, seen, roster, uploaded, clock, gen, iss, rec, observed>>

RECURSIVE PersistRaw(_, _)
\* "Persist raw uploads": every file is written under its name, in order
PersistRaw(dir, files) ==
    IF files = <<>> THEN dir
    ELSE PersistRaw([dir EXCEPT ![Head(files).name] =
                         [exists |-> TRUE, lines |-> Head(files).lines]],
                    Tail(files))

\* "Update active config to first file"
ActiveConfig(files) == [exists |-> TRUE, active_csv |-> files[1].name]

\* the entries of after that before does not have
NewEntries(before, after) == Range(after) \ Range(before)

\* "Upload Files" with files selected: read, concatenate, persist, point the
\* active config at the first file, then issue codes
Upload(s, files) ==
    /\ session[s].admin_verified
    /\ Loadable(codeFile)
    /\ LET df == ConcatUpload(files)
       IN  /\ dataDir' = PersistRaw(dataDir, files)
           /\ configFile' = ActiveConfig(files)
           /\ IF SupCol(df) = 0
              THEN /\ codeFile' = codeFile
                   /\ issued' = issued
                   /\ seen' = seen
                   /\ roster' = roster
                   /\ uploaded' = uploaded
                   /\ msg' = "Missing Supervisor column"
              ELSE \E code_map \in IssueAll(LoadCodes(codeFile), Supervisors(df)) :
                      /\ codeFile' = Written(code_map)
                      /\ issued' = issued \cup NewEntries(LoadCodes(codeFile), code_map)
                      /\ seen' = seen \cup Range(Supervisors(df))
                      /\ roster' = df
                      /\ uploaded' = files
                      /\ msg' = "All CSVs uploaded and codes initialized."
    /\ UNCHANGED <<logFile, session, entered, admin_pass, clock, gen, iss, rec, observed>>

\* "Upload Files" with no file selected
UploadNothing(s) ==
    /\ session[s].admin_verified
    /\ msg # "Please select at least one CSV file."
    /\ msg' = "Please select at least one CSV file."
    /\ UNCHANGED <<stores, session, entered, admin_pass, issued, seen, roster, uploaded, clock, gen, iss, rec, observed>>

\* a second passes
Tick ==
    /\ clock < MaxClock
    /\ clock' = clock + 1
    /\ UNCHANGED <<stores, session, msg, entered, admin_pass, issued, seen, roster, uploaded, iss, rec, gen, observed>>

\* the boxes of the largest team of the catalog
BoxIndices == 1..Len(Team(ReadCsv(FileTeam.lines), T("Jordan")))

\* the uploads the review sessions are explored on: a roster that can be
\* reviewed and one that lacks the Supervisor column, stored under one name
ReviewUploads == {<<FileTeam>>, <<FileNoSup>>}

Next ==
    \/ \E s \in Solo, code \in CodeInputs : StartReview(s, code)
    \/ \E s \in Solo, a \in SUBSET BoxIndices, r \in SUBSET BoxIndices : SubmitReview(s, a, r)
    \/ \E s \in Solo : ReviewFails(s)
    \/ \E s \in Solo : StartNewReview(s)
    \/ \E s \in Solo, pwd \in Passcodes : Unlock(s, pwd)
    \/ \E s \in Solo, files \in ReviewUploads : Upload(s, files)
    \/ \E s \in Solo : UploadNothing(s)
    \/ Tick

\* the whole application, uploads taken from ReviewUploads
Spec == Init /\ [][Next]_vars

NextRegistry ==
    \/ \E s \in Solo, pwd \in Passcodes : Unlock(s, pwd)
    \/ \E s \in Solo, files \in Uploads : Upload(s, files)
    \/ \E s \in Solo : UploadNothing(s)
    \/ \E s \in Solo, code \in CodeInputs : StartReview(s, code)

\* the admin panel and the code lookup, uploads of up to MaxFiles files
SpecRegistry == Init /\ [][NextRegistry]_vars

-----------------------------------------------------------------------------
(* Script runs of two sessions that overlap.  load_or_create_codes is taken  *)
(* file operation by file operation: json.load, open(CODE_FILE, 'w'), which  *)
(* truncates the file, and the end of the with block, which flushes the      *)
(* dump and closes the file.                                                 *)

Truncated == [exists |-> TRUE, complete |-> FALSE, entries |-> <<>>]

\* the roster the overlapping uploads are explored on
ConcUploads == {<<FileTeam>>}

\* the codes the overlapping lookups are explored on
ConcCodeInputs == {Str(RandLo), <<1, 0, 0>>}

\* "Upload Files" up to the end of step 4's loop: the raw files and the
\* pointer are written, the code map is loaded and the new codes are drawn
UploadBegin(s, files) ==
    /\ session[s].admin_verified
    /\ iss[s].pc = "idle"
    /\ Loadable(codeFile)
    /\ SupCol(ConcatUpload(files)) # 0
    /\ dataDir' = PersistRaw(dataDir, files)
    /\ configFile' = ActiveConfig(files)
    /\ \E code_map \in IssueAll(LoadCodes(codeFile), Supervisors(ConcatUpload(files))) :
          /\ iss' = [iss EXCEPT ![s] = [pc |-> "loaded", code_map |-> code_map]]
          /\ issued' = issued \cup NewEntries(LoadCodes(codeFile), code_map)
    /\ seen' = seen \cup Range(Supervisors(ConcatUpload(files)))
    /\ roster' = ConcatUpload(files)
    /\ uploaded' = files
    /\ observed' = codeFile
    /\ msg' = ""
    /\ UNCHANGED <<codeFile, logFile, session, entered, admin_pass, clock, gen, rec>>

\* json.load in load_or_create_codes raises on a file that another run has
\* open for writing, or left unfinished
UploadCrash(s, files) ==
    /\ session[s].admin_verified
    /\ iss[s].pc = "idle"
    /\ ~Loadable(codeFile)
    /\ SupCol(ConcatUpload(files)) # 0
    /\ dataDir' = PersistRaw(dataDir, files)
    /\ configFile' = ActiveConfig(files)
    /\ observed' = codeFile
    /\ msg' = "JSONDecodeError"
    /\ UNCHANGED <<codeFile, logFile, session, entered, admin_pass, issued, seen, roster, uploaded, clock, gen, iss, rec>>

\* with open(CODE_FILE, 'w') as f
OpenForWrite(s) ==
    /\ iss[s].pc = "loaded"
    /\ codeFile' = Truncated
    /\ iss' = [iss EXCEPT ![s].pc = "open"]
    /\ UNCHANGED <<configFile, dataDir, logFile, session, msg, entered, admin_pass, issued, seen, roster, uploaded, clock, gen, observed, rec>>

\* json.dump(code_map, f, indent=2) and the end of the with block
DumpAndClose(s) ==
    /\ iss[s].pc = "open"
    /\ codeFile' = Written(iss[s].code_map)
    /\ iss' = [iss EXCEPT ![s] = Idle]
    /\ msg' = "All CSVs uploaded and codes initialized."
    /\ UNCHANGED <<configFile, dataDir, logFile, session, entered, admin_pass, issued, seen, roster, uploaded, clock, gen, observed, rec>>

\* the run ends between open and close: the dump raises or the server stops
FailWhileOpen(s) ==
    /\ iss[s].pc = "open"
    /\ iss' = [iss EXCEPT ![s] = Idle]
    /\ msg' = "Exception"
    /\ UNCHANGED <<stores, session, entered, admin_pass, issued, seen, roster, uploaded, clock, gen, observed, rec>>

\* "Start Review" while uploads may be under way
StartReviewConc(s, code) ==
    /\ iss[s].pc = "idle"
    /\ StartReviewRun(s, code)
    /\ observed' = codeFile
    /\ UNCHANGED <<iss, rec>>

\* json.load in find_supervisor_by_code raises: the script run ends
StartReviewCrash(s, code) ==
    /\ iss[s].pc = "idle"
    /\ AwaitingCode(s)
    /\ code # <<>>
    /\ ~Loadable(codeFile)
    /\ observed' = codeFile
    /\ msg' = "JSONDecodeError"
    /\ entered' = [entered EXCEPT ![s] = code]
    /\ UNCHANGED <<stores, session, admin_pass, issued, seen, roster, uploaded, clock, gen, iss, rec>>

UnlockConc(s, pwd) == iss[s].pc = "idle" /\ Unlock(s, pwd)

NextConc ==
    \/ \E s \in Sessions, pwd \in Passcodes : UnlockConc(s, pwd)
    \/ \E s \in Sessions, files \in ConcUploads : UploadBegin(s, files)
    \/ \E s \in Sessions, files \in ConcUploads : UploadCrash(s, files)
    \/ \E s \in Sessions : OpenForWrite(s)
    \/ \E s \in Sessions : DumpAndClose(s)
    \/ \E s \in Sessions : FailWhileOpen(s)
    \/ \E s \in Sessions, code \in ConcCodeInputs : StartReviewConc(s, code)
    \/ \E s \in Sessions, code \in ConcCodeInputs : StartReviewCrash(s, code)

\* two sessions whose script runs interleave at the file operations
SpecConc == Init /\ [][NextConc]_vars

-----------------------------------------------------------------------------
(* Properties of the code registry *)

\* the entries of supervisor_codes.json
CodeMap == codeFile.entries

FourDigit(code) ==
    /\ Len(code) = 4
    /\ \A i \in 1..4 : code[i] \in 0..9
    /\ code[1] >= 1

\* C1: at all times every supervisor seen by an issuance holds exactly one
\* entry of the code map, every code is a 4-digit string 1000..9999 and no
\* two supervisors hold the same code
C1_UniqueFourDigitCodes ==
    /\ \A sup \in seen :
          Cardinality({i \in 1..Len(CodeMap) : CodeMap[i].sup = sup}) = 1
    /\ \A i, j \in 1..Len(CodeMap) :
          /\ FourDigit(CodeMap[i].code)
          /\ (CodeMap[i].sup = CodeMap[j].sup => i = j)
          /\ (CodeMap[i].code = CodeMap[j].code => i = j)

\* three supervisors hold codes and the one ranked last was issued first: the
\* map grew over more than one issuance
C1_Witness ==
    /\ Cardinality(seen) = 3
    /\ Len(CodeMap) = 3
    /\ CodeMap[1].sup = T("Sam")
    /\ CodeMap[3].sup = T("Jordan")

\* C2: every step leaves each entry of the code map in place: the supervisor
\* keeps an entry and its code is the one it had
C2_MapIsCumulative ==
    [][\A i \in 1..Len(CodeMap) :
          /\ \E j \in 1..Len(CodeMap') : CodeMap'[j] = CodeMap[i]
          /\ \A j \in 1..Len(CodeMap') :
                CodeMap'[j].sup = CodeMap[i].sup => CodeMap'[j].code = CodeMap[i].code]_vars

\* Sam holds a code, and the roster in force, uploaded later, has no row of Sam
C2_Witness ==
    /\ T("Sam") \in Keys(CodeMap)
    /\ T("Avery") \in Keys(CodeMap)
    /\ configFile.exists
    /\ configFile.active_csv = FileTeam.name
    /\ dataDir[FileTeam.name].lines = FileTeam.lines
    /\ CodeMap[1].sup = T("Sam")

\* C3: a code that was issued resolves to the supervisor it was issued to, a
\* code that was never issued resolves to None
C3_ResolveInvertsIssue ==
    /\ \A e \in issued : find_supervisor_by_code(codeFile, e.code) = e.sup
    /\ \A code \in CodeInputs :
          (\A e \in issued : e.code # code) => find_supervisor_by_code(codeFile, code) = None

\* two codes are issued and the second resolves to its holder
C3_Witness ==
    /\ Cardinality(issued) >= 2
    /\ Len(CodeMap) >= 2
    /\ find_supervisor_by_code(codeFile, CodeMap[2].code) = CodeMap[2].sup

\* C6: an upload whose roster has no Supervisor column leaves the pointer, the
\* stored files and the code map as they were
C6_SchemaFailureChangesNothing ==
    [][\A s \in Sessions, files \in Uploads :
          (SupCol(ConcatUpload(files)) = 0 /\ Upload(s, files))
              => UNCHANGED <<configFile, dataDir, codeFile>>]_vars

-----------------------------------------------------------------------------
(* Properties of the review session *)

\* C4: a code entered in AwaitingCode opens the review of the supervisor it
\* resolves to, exactly when it resolves; otherwise the session is as it was;
\* a session in review is bound to the holder of the code entered
C4_CodeEntry ==
    /\ [][\A s \in Sessions :
             /\ \A code \in CodeInputs :
                   StartReview(s, code) =>
                       LET sup == find_supervisor_by_code(codeFile, code)
                       IN  /\ (sup # None) <=> InReview(s)'
                           /\ (sup # None) => session'[s].supervisor = sup
                           /\ (sup = None) => session'[s] = session[s]
             /\ (AwaitingCode(s) /\ ~AwaitingCode(s)') =>
                   /\ InReview(s)'
                   /\ session'[s].supervisor # None
                   /\ session'[s].supervisor = find_supervisor_by_code(codeFile, entered'[s])]_vars
    /\ [](\A s \in Sessions :
             InReview(s) =>
                 \E i \in 1..Len(CodeMap) :
                     /\ CodeMap[i].sup = session[s].supervisor
                     /\ CodeMap[i].code = entered[s])

\* a review is open for Jordan
C4_Witness ==
    \E s \in Sessions :
        /\ InReview(s)
        /\ session[s].supervisor = T("Jordan")
        /\ find_supervisor_by_code(codeFile, entered[s]) = T("Jordan")

\* C5: "Start New Review" leaves the session in AwaitingCode with empty
\* decision lists and no supervisor bound
C5_StartNewDiscardsBinding ==
    [][\A s \in Sessions :
          StartNewReview(s) =>
              /\ AwaitingCode(s)'
              /\ session'[s].approved = <<>>
              /\ session'[s].removed = <<>>
              /\ session'[s].supervisor = None]_vars

-----------------------------------------------------------------------------
(* Properties of the audit log *)

\* the step of session s from InReview to Completed
Submitted(s) == InReview(s) /\ Completed(s)'

\* the user ids of the team of sup in the roster in force
TeamUids(sup) ==
    LET emps == Team(load_dataframe(configFile, dataDir), sup)
    IN  {emps[i][1] : i \in 1..Len(emps)}

Resolvable(sup, label) == SplitUid(label) \in TeamUids(sup)

\* the labels of lst that resolve, in order
ResolvableOf(sup, lst) == SelectSeq(lst, LAMBDA label : Resolvable(sup, label))

\* C7: a submission none of whose labels resolves leaves the log as it was
C7_EmptySubmissionLeavesLog ==
    [][\A s \in Sessions :
          (/\ Submitted(s)
           /\ \A label \in Range(session'[s].approved) \cup Range(session'[s].removed) :
                 ~Resolvable(session[s].supervisor, label))
              => logFile' = logFile]_vars

\* a review with a ticked label was submitted and there is no log
C7_Witness ==
    \E s \in Sessions :
        /\ Completed(s)
        /\ session[s].approved # <<>>
        /\ ~Resolvable(session[s].supervisor, session[s].approved[1])
        /\ ~logFile.exists

\* C8: a submission appends one row per resolvable label, the approvals
\* before the removals, each group in label order, all with one timestamp
C8_RowsOfSubmission ==
    [][\A s \in Sessions :
          Submitted(s) =>
              LET sup == session[s].supervisor
                  app == ResolvableOf(sup, session'[s].approved)
                  rem == ResolvableOf(sup, session'[s].removed)
                  old == Len(DataRows(logFile))
                  new == DataRows(logFile')
              IN  /\ Len(new) = old + Len(app) + Len(rem)
                  /\ \A i \in 1..Len(app) :
                        /\ new[old + i][1] = SplitUid(app[i])
                        /\ new[old + i][6] = T("Approved")
                  /\ \A i \in 1..Len(rem) :
                        /\ new[old + Len(app) + i][1] = SplitUid(rem[i])
                        /\ new[old + Len(app) + i][6] = T("Removed")
                  /\ \A i \in (old + 1)..Len(new) : new[i][7] = new[old + 1][7]]_vars

\* one label was ticked in both columns: the log has its Approved row and
\* then its Removed row
C8_Witness ==
    \E s \in Sessions :
        /\ Completed(s)
        /\ Len(session[s].approved) = 1
        /\ session[s].removed = session[s].approved
        /\ Len(DataRows(logFile)) = 2
        /\ DataRows(logFile)[1][1] = SplitUid(session[s].approved[1])
        /\ DataRows(logFile)[2][1] = SplitUid(session[s].approved[1])
        /\ DataRows(logFile)[1][6] = T("Approved")
        /\ DataRows(logFile)[2][6] = T("Removed")

IsPrefix(a, b) == Len(a) <= Len(b) /\ \A i \in 1..Len(a) : a[i] = b[i]

\* C9: every step keeps the log and its rows, in order, as the start of the
\* new log
C9_LogAppendOnly ==
    [][/\ logFile.exists => logFile'.exists
       /\ IsPrefix(logFile.rows, logFile'.rows)]_vars

\* the log holds the rows of two submissions, of different seconds
C9_Witness ==
    /\ Len(DataRows(logFile)) = 2
    /\ DataRows(logFile)[1][7] # DataRows(logFile)[2][7]

-----------------------------------------------------------------------------
(* Properties of the persistence of the code map *)

\* C10: whoever reads the code map gets a whole map, the one before or the
\* one after an issuance, never a file that is empty or cut short
C10_ReadersSeeWholeMap == observed.exists => observed.complete

-----------------------------------------------------------------------------
(* Submissions of two sessions that overlap.  log_actions is taken file      *)
(* operation by file operation: the existence test with load_workbook, and   *)
(* wb.save, which writes the whole workbook.                                 *)

\* the uploads the overlapping submissions are explored on
LogUploads == {<<FileTeam>>}

\* the boxes the overlapping submissions are explored on
LogBoxes == {{}, {1}, {3}}

\* "Submit Review" up to load_workbook: the records are built, the workbook
\* is loaded; with no record log_actions returns and the run completes
SubmitBegin(s, approveBoxes, removeBoxes) ==
    /\ InReview(s)
    /\ rec[s].pc = "idle"
    /\ configFile.exists
    /\ LET sup == session[s].supervisor
           df == load_dataframe(configFile, dataDir)
       IN  /\ Indexable(df)
           /\ LET emps == Team(df, sup)
                  approve == Ticked(emps, approveBoxes, 1)
                  remove == Ticked(emps, removeBoxes, 1)
                  records == Records(sup, approve, remove, df, Strftime(clock))
              IN  /\ approveBoxes \subseteq 1..Len(emps)
                  /\ removeBoxes \subseteq 1..Len(emps)
                  /\ Len(DataRows(logFile)) + Len(records) <= MaxLogRows
                  /\ IF records = <<>>
                     THEN /\ session' = [session EXCEPT ![s].approved = approve,
                                                        ![s].removed = remove,
                                                        ![s].review_complete = TRUE]
                          /\ rec' = rec
                     ELSE /\ session' = session
                          /\ rec' = [rec EXCEPT ![s] =
                                        [pc |-> "loaded", wb |-> logFile, records |-> records,
                                         approve |-> approve, remove |-> remove]]
    /\ msg' = ""
    /\ UNCHANGED <<stores, entered, admin_pass, issued, seen, roster, uploaded, clock, gen, iss, observed>>

\* the save, as if it wrote a new workbook with the records of the call only
SubmitSaveFresh(s) ==
    /\ rec[s].pc = "loaded"
    /\ logFile' = WriteLog(NoLog, rec[s].records)
    /\ session' = [session EXCEPT ![s].approved = rec[s].approve,
                                  ![s].removed = rec[s].remove,
                                  ![s].review_complete = TRUE]
    /\ rec' = [rec EXCEPT ![s] = NotRecording]
    /\ msg' = ""
    /\ UNCHANGED <<codeFile, configFile, dataDir, entered, admin_pass, issued, seen, roster, uploaded, clock, gen, iss, observed>>

\* wb.save(EXCEL_OUTPUT) and the rest of the run
SubmitSave(s) ==
    /\ rec[s].pc = "loaded"
    /\ logFile' = WriteLog(rec[s].wb, rec[s].records)
    /\ session' = [session EXCEPT ![s].approved = rec[s].approve,
                                  ![s].removed = rec[s].remove,
                                  ![s].review_complete = TRUE]
    /\ rec' = [rec EXCEPT ![s] = NotRecording]
    /\ msg' = ""
    /\ UNCHANGED <<codeFile, configFile, dataDir, entered, admin_pass, issued, seen, roster, uploaded, clock, gen, iss, observed>>

UnlockLog(s, pwd) == rec[s].pc = "idle" /\ Unlock(s, pwd)

UploadLog(s, files) == rec[s].pc = "idle" /\ Upload(s, files)

StartReviewLog(s, code) == rec[s].pc = "idle" /\ StartReview(s, code)

NextLog ==
    \/ \E s \in Sessions, pwd \in Passcodes : UnlockLog(s, pwd)
    \/ \E s \in Sessions, files \in LogUploads : UploadLog(s, files)
    \/ \E s \in Sessions, code \in CodeInputs : StartReviewLog(s, code)
    \/ \E s \in Sessions, a \in LogBoxes, r \in LogBoxes : SubmitBegin(s, a, r)
    \/ \E s \in Sessions : SubmitSave(s)

\* two sessions whose submissions interleave at the file operations
SpecLog == Init /\ [][NextLog]_vars

\* C11: a save rewrites the log as the workbook the call loaded plus its
\* records; when the log is still as the call loaded it, every row stays and
\* the records are appended, so a run of whole calls loses no row
C11_WholeCallsLoseNothing ==
    [][\A s \in Sessions :
          (rec[s].pc = "loaded" /\ rec'[s].pc = "idle") =>
              /\ DataRows(logFile') = DataRows(rec[s].wb) \o rec[s].records
              /\ (rec[s].wb = logFile =>
                     /\ IsPrefix(logFile.rows, logFile'.rows)
                     /\ Len(DataRows(logFile')) = Len(DataRows(logFile)) + Len(rec[s].records))]_vars

\* the rows a completed session submitted
RowsOf(s) ==
    LET sup == session[s].supervisor
    IN  ResolvableOf(sup, session[s].approved) \o ResolvableOf(sup, session[s].removed)

\* both sessions completed a submission with surviving rows and the log has
\* the rows of one of them only
C11_Witness ==
    /\ \A s \in Sessions : Completed(s) /\ rec[s].pc = "idle" /\ Len(RowsOf(s)) = 1
    /\ Len(DataRows(logFile)) = 1

-----------------------------------------------------------------------------
(* The roster in force *)

\* the team the review page shows of a frame; a frame it cannot index shows none
TeamShown(df, sup) == IF Indexable(df) THEN Team(df, sup) ELSE <<>>

\* C12: right after an upload that issued codes, the roster a review loads
\* through the pointer has the rows of the frame the codes were issued from,
\* and shows every supervisor of that frame the team the frame has
C12_ReviewLoadsIssuedRoster ==
    msg = "All CSVs uploaded and codes initialized." =>
        LET df == load_dataframe(configFile, dataDir)
        IN  /\ df.rows = roster.rows
            /\ \A sup \in Range(Supervisors(roster)) : TeamShown(df, sup) = TeamShown(roster, sup)

-----------------------------------------------------------------------------
(* The admin gate *)

\* C13: the roster files, the pointer and the code map change only in a step
\* of "Upload Files" taken by a session whose admin_verified is set;
\* admin_verified is only ever set by a run that was given the admin passcode;
\* a run given another passcode leaves it unset and leaves the stores alone
C13_StoresBehindPasscode ==
    [][/\ <<codeFile, configFile, dataDir>>' # <<codeFile, configFile, dataDir>> =>
              \E s \in Sessions, files \in ReviewUploads :
                  session[s].admin_verified /\ Upload(s, files)
       /\ \A s \in Sessions :
              /\ session'[s].admin_verified =>
                     session[s].admin_verified \/ admin_pass'[s] = AdminPasscode
              /\ session[s].admin_verified => admin_pass[s] = AdminPasscode
              /\ (admin_pass'[s] # AdminPasscode /\ msg' = "Incorrect passcode.") =>
                     ~session'[s].admin_verified /\ UNCHANGED stores]_vars

\* the admin passcode was typed and a roster was uploaded behind it
C13_Witness ==
    /\ configFile.exists
    /\ codeFile.exists
    /\ \E s \in Sessions : session[s].admin_verified /\ admin_pass[s] = AdminPasscode

-----------------------------------------------------------------------------
(* Whose rows a submission may log *)

\* the user ids of the roster rows whose Supervisor is sup
UidsUnder(sup) ==
    LET df == load_dataframe(configFile, dataDir)
    IN  {df.rows[i][ColumnIndex(df, T("User ID"))] :
            i \in {j \in 1..Len(df.rows) : df.rows[j][ColumnIndex(df, T("Supervisor"))] = sup}}

\* C14: a submission ends without an error; every row it appends names the
\* supervisor bound to the session and a user id of a roster row of that
\* supervisor; a ticked label whose user id no such row has gives no row
C14_RowsOfOwnTeamOnly ==
    [][\A s \in Sessions :
          (InReview(s) /\ (session'[s] # session[s] \/ logFile' # logFile)) =>
              LET sup == session[s].supervisor
                  old == Len(DataRows(logFile))
                  new == DataRows(logFile')
                  ticked == Range(session'[s].approved) \cup Range(session'[s].removed)
              IN  /\ Completed(s)'
                  /\ msg' = ""
                  /\ \A i \in (old + 1)..Len(new) :
                        /\ new[i][5] = sup
                        /\ new[i][1] \in UidsUnder(sup)
                        /\ \E label \in ticked : SplitUid(label) = new[i][1]
                  /\ (\A label \in ticked : SplitUid(label) \notin UidsUnder(sup)) =>
                        logFile' = logFile]_vars

\* after a submission that logged rows, a supervisor ticked a label whose user
\* id only another supervisor has, and the log has the earlier rows only
C14_Witness ==
    \E s \in Sessions :
        /\ configFile.exists
        /\ Indexable(load_dataframe(configFile, dataDir))
        /\ Completed(s)
        /\ session[s].approved # <<>>
        /\ SplitUid(session[s].approved[1]) \notin UidsUnder(session[s].supervisor)
        /\ \E other \in Keys(CodeMap) : SplitUid(session[s].approved[1]) \in UidsUnder(other)
        /\ Len(DataRows(logFile)) > 0
        /\ \A i \in 1..Len(DataRows(logFile)) : DataRows(logFile)[i][5] # session[s].supervisor

-----------------------------------------------------------------------------
(* The loop of generate_unique_code, draw by draw.  The issuance starts     *)
(* from a code map of any size: a few codes in use, or all codes of the     *)
(* range but a few, or all of them.                                         *)

\* every code random.randint(1000, 9999) can give, as str gives it
CodeSpace == {Str(n) : n \in RandLo..RandHi}

\* the draws explored by value
DrawCodes == {Str(n) : n \in DrawSet}

\* the codes in use the loop is explored on
ExistingCodes ==
    LET few == SUBSET DrawCodes
    IN  few \cup {CodeSpace \ codes : codes \in few}

\* load_or_create_codes at step 4 with todo supervisors that have no code
InitDraw ==
    /\ codeFile = NoCodeFile
    /\ configFile = NoConfig
    /\ dataDir = [n \in FileNames |-> NoData]
    /\ logFile = NoLog
    /\ session = [s \in Sessions |-> SessionDefaults]
    /\ msg = ""
    /\ entered = [s \in Sessions |-> <<>>]
    /\ admin_pass = [s \in Sessions |-> ""]
    /\ issued = {}
    /\ seen = {}
    /\ roster = NoRoster
    /\ uploaded = <<>>
    /\ clock = 0
    /\ iss = [s \in Sessions |-> Idle]
    /\ rec = [s \in Sessions |-> NotRecording]
    /\ observed = NothingObserved
    /\ \E existing \in ExistingCodes, todo \in 0..MaxNew :
          gen = [pc |-> "idle", existing |-> existing, todo |-> todo, code |-> <<>>]

others == <<codeFile, configFile, dataDir, logFile, session, msg, entered, admin_pass,
            issued, seen, roster, uploaded, clock, iss, rec, observed>>

\* "if sup not in code_map": generate_unique_code is called
CallGenerate ==
    /\ gen.pc = "idle"
    /\ gen.todo > 0
    /\ gen' = [gen EXCEPT !.pc = "drawing", !.code = <<>>]
    /\ UNCHANGED others

\* a draw that is in use: "if code not in existing" fails, the loop goes on
DrawTaken(code) ==
    /\ gen.pc = "drawing"
    /\ code \in gen.existing
    /\ gen' = [gen EXCEPT !.code = code]
    /\ UNCHANGED others

\* "return code": the code is assigned, the loop over the supervisors goes on
Return(code) ==
    /\ gen' = [pc |-> "idle", existing |-> gen.existing \cup {code},
               todo |-> gen.todo - 1, code |-> code]
    /\ UNCHANGED others

\* a draw that is not in use
DrawFree(code) ==
    /\ gen.pc = "drawing"
    /\ code \notin gen.existing
    /\ Return(code)

\* a draw of a value beyond DrawCodes that is not in use, so that the loop can
\* leave whenever the range has a code left
DrawFreeElsewhere ==
    /\ gen.pc = "drawing"
    /\ ~(CodeSpace \subseteq gen.existing)
    /\ Return(CHOOSE code \in CodeSpace : code \notin gen.existing)

NextDraw ==
    \/ CallGenerate
    \/ \E code \in DrawCodes : DrawTaken(code)
    \/ \E code \in DrawCodes : DrawFree(code)
    \/ DrawFreeElsewhere

\* the loop runs on once entered, and random.randint gives a code that is
\* not in use again and again when there is one
SpecDraw ==
    /\ InitDraw
    /\ [][NextDraw]_vars
    /\ WF_vars(NextDraw)
    /\ SF_vars((\E code \in DrawCodes : DrawFree(code)) \/ DrawFreeElsewhere)

\* C15: every issuance comes to its end, every supervisor it was to give a
\* code has one, whatever the number of codes in use
C15_IssuanceReturns == <>(gen.pc = "idle" /\ gen.todo = 0)

-----------------------------------------------------------------------------
(* The first line of the files after the first *)

\* a line that reads as the header the first file gave
MatchesHeader(line, expected_cols) ==
    /\ Len(line) = Len(expected_cols)
    /\ \A i \in 1..Len(line) : Lower(NormalizeColumn(line[i])) = Lower(expected_cols[i])

RECURSIVE RowsKeepingData(_, _, _)
\* the rows of the files from idx on, a first line dropped only where it
\* reads as the header
RowsKeepingData(files, idx, expected_cols) ==
    IF idx > Len(files) THEN <<>>
    ELSE (IF idx = 1 \/ MatchesHeader(Head(files[idx].lines), expected_cols)
          THEN Tail(files[idx].lines)
          ELSE files[idx].lines)
             \o RowsKeepingData(files, idx + 1, expected_cols)

\* C16: the frame read from an upload has every line of every file but the
\* header of the first file and the first lines of later files that read as
\* that header
C16_FirstRowKeptUnlessHeader ==
    msg = "All CSVs uploaded and codes initialized." =>
        roster.rows = RowsKeepingData(uploaded, 1, roster.columns)

-----------------------------------------------------------------------------
(* When the audit log is written *)

\* C17: the log changes only in a step that takes a session from InReview to
\* Completed; a Completed session leaves that phase only to AwaitingCode, and
\* an AwaitingCode session only to InReview, by a code that resolves
C17_LogOnlyBySubmission ==
    [][/\ logFile' # logFile => \E s \in Sessions : InReview(s) /\ Completed(s)'
       /\ \A s \in Sessions :
              /\ (Completed(s) /\ ~Completed(s)') => (AwaitingCode(s)' /\ logFile' = logFile)
              /\ (AwaitingCode(s) /\ ~AwaitingCode(s)') =>
                     /\ InReview(s)'
                     /\ logFile' = logFile
                     /\ entered'[s] # <<>>
                     /\ find_supervisor_by_code(codeFile, entered'[s]) # None]_vars

\* one session has completed two submissions, a second apart, and the log has
\* a row of each
C17_Witness ==
    \E s \in Sessions :
        /\ Completed(s)
        /\ Len(DataRows(logFile)) = 2
        /\ DataRows(logFile)[1][7] # DataRows(logFile)[2][7]
        /\ \A i \in 1..2 : DataRows(logFile)[i][5] = session[s].supervisor

-----------------------------------------------------------------------------
(* The fields of a logged row *)

\* the rows of the team of sup, in roster order, whose user id is uid
TeamRowsOf(sup, uid) ==
    SelectSeq(Team(load_dataframe(configFile, dataDir), sup), LAMBDA r : r[1] = uid)

\* C18: the row logged for a label has the user name, role and role name of
\* the first row of the team whose user id is the part of the label before
\* the first " - ", whatever the rest of the label and whichever of the rows
\* of that user id was ticked
C18_FieldsOfFirstTeamRow ==
    [][\A s \in Sessions :
          Submitted(s) =>
              LET sup == session[s].supervisor
                  labels == ResolvableOf(sup, session'[s].approved)
                                \o ResolvableOf(sup, session'[s].removed)
                  old == Len(DataRows(logFile))
                  new == DataRows(logFile')
              IN  \A i \in 1..Len(labels) :
                     LET first == TeamRowsOf(sup, SplitUid(labels[i]))[1]
                     IN  /\ old + i <= Len(new)
                         /\ new[old + i][2] = first[2]
                         /\ new[old + i][3] = first[3]
                         /\ new[old + i][4] = first[4]]_vars

\* the boxes of both roles of one user id were ticked: two rows were logged,
\* both with the role of the first
C18_Witness ==
    \E s \in Sessions :
        /\ configFile.exists
        /\ Indexable(load_dataframe(configFile, dataDir))
        /\ Completed(s)
        /\ Len(session[s].approved) = 2
        /\ session[s].approved[1] = session[s].approved[2]
        /\ LET rows == TeamRowsOf(session[s].supervisor, SplitUid(session[s].approved[1]))
               logged == DataRows(logFile)
           IN  /\ Len(rows) = 2
               /\ rows[1][3] # rows[2][3]
               /\ Len(logged) = 2
               /\ \A i \in 1..2 : logged[i][1] = rows[1][1] /\ logged[i][3] = rows[1][3]

-----------------------------------------------------------------------------
(* The phases of a review session *)

\* the phase of session s
Phase(s) ==
    IF ~session[s].review_started THEN "AwaitingCode"
    ELSE IF ~session[s].review_complete THEN "InReview" ELSE "Completed"

\* C19: a complete review was started; a started review has a supervisor,
\* who was a key of the code map when the code was entered; decisions are
\* held only by a complete review; a session goes from AwaitingCode to
\* InReview, from InReview to Completed, from Completed to AwaitingCode, and
\* no other way
C19_SessionPhases ==
    /\ [](\A s \in Sessions :
             /\ session[s].review_complete => session[s].review_started
             /\ session[s].review_started => session[s].supervisor # None
             /\ (session[s].approved # <<>> \/ session[s].removed # <<>>) =>
                    session[s].review_complete)
    /\ [][\A s \in Sessions :
             /\ Phase(s)' # Phase(s) =>
                    <<Phase(s), Phase(s)'>> \in {<<"AwaitingCode", "InReview">>,
                                                 <<"InReview", "Completed">>,
                                                 <<"Completed", "AwaitingCode">>}
             /\ (AwaitingCode(s) /\ InReview(s)') =>
                    session'[s].supervisor \in Keys(LoadCodes(codeFile))
             /\ session[s].review_started =>
                    session'[s].supervisor = session[s].supervisor]_vars

\* a session went through the three phases and awaits a code again
C19_Witness ==
    \E s \in Sessions :
        /\ AwaitingCode(s)
        /\ session[s].supervisor \in Keys(CodeMap)
        /\ session[s].approved = <<>> /\ session[s].removed = <<>>
        /\ \E i \in 1..Len(DataRows(logFile)) : DataRows(logFile)[i][5] = session[s].supervisor

-----------------------------------------------------------------------------
(* Issuances that overlap *)

\* C20: whatever the order of the loads and writes of two issuances, no two
\* entries of the code map on disk have the same code, nor do two entries of
\* a map that an issuance is about to write
C20_PersistedCodesDistinct ==
    /\ \A i, j \in 1..Len(codeFile.entries) :
          i # j => codeFile.entries[i].code # codeFile.entries[j].code
    /\ \A s \in Sessions : \A i, j \in 1..Len(iss[s].code_map) :
          i # j => iss[s].code_map[i].code # iss[s].code_map[j].code

\* both issuances are over, the map on disk is whole, and a code that one of
\* them assigned is not in it
C20_Witness ==
    /\ \A s \in Sessions : iss[s].pc = "idle" /\ session[s].admin_verified
    /\ codeFile.exists /\ codeFile.complete
    /\ codeFile.entries # <<>>
    /\ \E e \in issued : e \notin Range(codeFile.entries)

====
